---- MODULE Spec2Model ----
(***************************************************************************)
(* Model of src/main.py: a container is started, its output is read line   *)
(* by line and every line is written to a CloudWatch log stream; the log   *)
(* group and the log stream are created first, the container is stopped    *)
(* and removed when the scope of managed_container is left.                *)
(*                                                                         *)
(* The Docker daemon and the CloudWatch service are the environment: each  *)
(* call to them has an outcome drawn from the outcomes the call can have.  *)
(* SIGINT is the process-level interruption: CPython raises                *)
(* KeyboardInterrupt in the main thread at the statement being executed.   *)
(***************************************************************************)
EXTENDS Integers, Sequences, FiniteSets, TLC

\* ------------------------------------------------------------------ bounds
MaxLines == 2
MaxInterrupts == 1
MaxEnsure == 4

\* ------------------------------------------------- inputs (argparse values)
group_name == "g1"
stream_name == "s1"

\* Output lines of the container, as bytes: "hi", "\xc3\xa9" (U+00E9) and
\* "\xff", which is not UTF-8.
LineSet == { <<104, 105>>, <<195, 169>>, <<255>> }

RECURSIVE SeqsUpTo(_, _)
SeqsUpTo(S, n) ==
    IF n = 0 THEN { <<>> }
    ELSE LET shorter == SeqsUpTo(S, n - 1)
         IN  shorter \cup { Append(s, x) : s \in { t \in shorter : Len(t) = n - 1 }, x \in S }

Outputs == SeqsUpTo(LineSet, MaxLines)

\* ------------------------------------------------------ bytes.decode("utf-8")
IsCont(b) == b >= 128 /\ b <= 191

\* Number of bytes of the code point that starts at b[1]; 0 when the bytes
\* are not a well-formed UTF-8 sequence.
Utf8Width(b) ==
    IF b[1] < 128 THEN 1
    ELSE IF b[1] >= 194 /\ b[1] <= 223
        THEN IF Len(b) >= 2 /\ IsCont(b[2]) THEN 2 ELSE 0
    ELSE IF b[1] >= 224 /\ b[1] <= 239
        THEN IF /\ Len(b) >= 3 /\ IsCont(b[2]) /\ IsCont(b[3])
                /\ (b[1] = 224 => b[2] >= 160)
                /\ (b[1] = 237 => b[2] <= 159)
             THEN 3 ELSE 0
    ELSE IF b[1] >= 240 /\ b[1] <= 244
        THEN IF /\ Len(b) >= 4 /\ IsCont(b[2]) /\ IsCont(b[3]) /\ IsCont(b[4])
                /\ (b[1] = 240 => b[2] >= 144)
                /\ (b[1] = 244 => b[2] <= 143)
             THEN 4 ELSE 0
    ELSE 0

Utf8CodePoint(b, w) ==
    IF w = 1 THEN b[1]
    ELSE IF w = 2 THEN (b[1] - 192) * 64 + (b[2] - 128)
    ELSE IF w = 3 THEN (b[1] - 224) * 4096 + (b[2] - 128) * 64 + (b[3] - 128)
    ELSE (b[1] - 240) * 262144 + (b[2] - 128) * 4096 + (b[3] - 128) * 64 + (b[4] - 128)

RECURSIVE decode(_)
\* The text of the bytes b as a sequence of code points, or the failure.
decode(b) ==
    IF b = <<>> THEN [ok |-> TRUE, text |-> <<>>]
    ELSE LET w == Utf8Width(b)
         IN  IF w = 0 THEN [ok |-> FALSE, text |-> <<>>]
             ELSE LET rest == decode(SubSeq(b, w + 1, Len(b)))
                  IN  IF rest.ok
                      THEN [ok |-> TRUE, text |-> <<Utf8CodePoint(b, w)>> \o rest.text]
                      ELSE rest

\* ------------------------------------------------------------- the program
VARIABLES
    pc,             \* position of main()
    output,         \* what the container writes, line by line
    auto_remove,    \* parameter of managed_container
    idx,            \* lines read from container.logs(stream=True)
    line,           \* loop variable of main()
    container,      \* the container at the daemon: none, running, stopped, removed
    inflight,       \* exception raised inside the with-block, "none" if none
    exc,            \* exception that left main(), "none" if none
    exit_code,      \* -1 while running
    calls,          \* history: calls made to the daemon and to CloudWatch
    outcomes,       \* history: outcome of each of these calls
    puts,           \* history: logEvents argument of each put_log_events call
    log,            \* records written through logger
    sink_groups,    \* log groups at CloudWatch
    sink_streams,   \* log streams at CloudWatch
    sink_events,    \* messages stored in the log stream
    interrupts      \* SIGINTs delivered

vars == << pc, output, auto_remove, idx, line, container, inflight, exc,
           exit_code, calls, outcomes, puts, log, sink_groups, sink_streams,
           sink_events, interrupts >>

Init ==
    /\ pc = "group"
    /\ output \in Outputs
    /\ auto_remove \in BOOLEAN
    /\ idx = 0
    /\ line = <<>>
    /\ container = "none"
    /\ inflight = "none"
    /\ exc = "none"
    /\ exit_code = -1
    /\ calls = <<>>
    /\ outcomes = <<>>
    /\ puts = <<>>
    /\ log = <<>>
    /\ sink_groups \in SUBSET { group_name }
    /\ sink_streams \in SUBSET { <<g, stream_name>> : g \in sink_groups }
    /\ sink_events = <<>>
    /\ interrupts = 0


\* ------------------------------------------- what the environment answers
\* create_log_group: the group is created, or it exists already, or the
\* request fails with another error code, or the request never gets through.
CreateLogGroupOutcomes ==
    (IF group_name \in sink_groups THEN { "ResourceAlreadyExistsException" } ELSE { "ok" })
        \cup { "ClientError", "Exception" }

\* create_log_stream in a group that does not exist fails with another error
\* code (ResourceNotFoundException).
CreateLogStreamOutcomes ==
    (IF group_name \notin sink_groups THEN {}
     ELSE IF <<group_name, stream_name>> \in sink_streams
        THEN { "ResourceAlreadyExistsException" } ELSE { "ok" })
        \cup { "ClientError", "Exception" }

\* put_log_events: "Failed" is a response that is returned normally and has
\* the key "Failed".
PutLogEventsOutcomes ==
    { "ok", "Failed", "ResourceAlreadyExistsException", "ClientError", "Exception" }

RunOutcomes == { "ok", "ImageNotFound" }
StopOutcomes == { "ok", "APIError" }
RemoveOutcomes == { "ok", "APIError" }

\* ------------------------------------------------------------- the functions
\* A wrapper that suppresses every exception of func.
handle_cloudwatch_errors_swallow(o) ==
    IF o = "ok" THEN [raised |-> "none", logged |-> <<>>]
    ELSE [raised |-> "none", logged |-> << "INFO Resource already exists" >>]

\* A wrapper that suppresses nothing.
handle_cloudwatch_errors_strict(o) ==
    IF o = "ok" THEN [raised |-> "none", logged |-> <<>>]
    ELSE IF o = "KeyboardInterrupt" THEN [raised |-> o, logged |-> <<>>]
    ELSE IF o \in { "ClientError", "ResourceAlreadyExistsException" }
        THEN [raised |-> o, logged |-> << "ERROR AWS request failed" >>]
    ELSE [raised |-> o, logged |-> << "ERROR Unexpected error occurred" >>]

\* handle_cloudwatch_errors.wrapper, given how func ended ("ok": it returned):
\* the exception that leaves the wrapper and the record it logs.
\* KeyboardInterrupt is not an Exception and passes both handlers.
handle_cloudwatch_errors(o) ==
    IF o = "ok" THEN [raised |-> "none", logged |-> <<>>]
    ELSE IF o = "ResourceAlreadyExistsException"
        THEN [raised |-> "none", logged |-> << "INFO Resource already exists" >>]
    ELSE IF o = "ClientError"
        THEN [raised |-> o, logged |-> << "ERROR AWS request failed" >>]
    ELSE IF o = "KeyboardInterrupt"
        THEN [raised |-> o, logged |-> <<>>]
    ELSE [raised |-> o, logged |-> << "ERROR Unexpected error occurred" >>]

\* A logEvents argument that carries the line twice.
logEvents_twice(text) == << [message |-> text], [message |-> text] >>

\* logEvents argument of put_log_events for a decoded line
logEvents(text) == << [message |-> text] >>

\* A write_logs_to_cloudwatch that raises on a response with "Failed".
check_response_raise(o) ==
    IF o = "Failed"
        THEN [ended |-> "Exception", logged |-> << "ERROR Failed to send log to CloudWatch" >>]
    ELSE IF o = "ok"
        THEN [ended |-> "ok", logged |-> << "INFO Successfully sent log to CloudWatch" >>]
    ELSE [ended |-> o, logged |-> <<>>]

\* write_logs_to_cloudwatch after put_log_events ended with o: how the body
\* of the function ends and what it logs.
check_response(o) ==
    IF o = "Failed"
        THEN [ended |-> "ok", logged |-> << "ERROR Failed to send log to CloudWatch" >>]
    ELSE IF o = "ok"
        THEN [ended |-> "ok", logged |-> << "INFO Successfully sent log to CloudWatch" >>]
    ELSE [ended |-> o, logged |-> <<>>]

\* A managed_container that calls containers.run inside the try statement.
managed_container_start_in_try(o) == IF o = "ok" THEN "started" ELSE "stop"

\* A managed_container that goes on when containers.run raised.
managed_container_start_ignore(o) == "started"

\* managed_container after containers.run ended with o: where control goes.
\* The call is made before the try statement is entered.
managed_container_start(o) == IF o = "ok" THEN "started" ELSE "done"

\* -------------------------------------------------------------- the actions
Call(name, o) ==
    /\ calls' = Append(calls, name)
    /\ outcomes' = Append(outcomes, o)

\* main() is left with exception e ("none": it returned)
Leave(e) ==
    /\ pc' = "done"
    /\ exc' = e
    /\ exit_code' = IF e = "none" THEN 0 ELSE 1

\* main(), line 123
CreateLogGroup ==
    /\ pc = "group"
    /\ \E o \in CreateLogGroupOutcomes :
        LET w == handle_cloudwatch_errors(o) IN
        /\ Call("create_log_group", o)
        /\ sink_groups' = IF o = "ok" THEN sink_groups \cup { group_name } ELSE sink_groups
        /\ log' = log \o w.logged
        /\ IF w.raised = "none"
            THEN pc' = "stream" /\ UNCHANGED << exc, exit_code >>
            ELSE Leave(w.raised)
    /\ UNCHANGED << output, auto_remove, idx, line, container, inflight, puts,
                    sink_streams, sink_events, interrupts >>

\* main(), line 124
CreateLogStream ==
    /\ pc = "stream"
    /\ \E o \in CreateLogStreamOutcomes :
        LET w == handle_cloudwatch_errors(o) IN
        /\ Call("create_log_stream", o)
        /\ sink_streams' = IF o = "ok"
                           THEN sink_streams \cup { <<group_name, stream_name>> }
                           ELSE sink_streams
        /\ log' = log \o w.logged
        /\ IF w.raised = "none"
            THEN pc' = "run" /\ UNCHANGED << exc, exit_code >>
            ELSE Leave(w.raised)
    /\ UNCHANGED << output, auto_remove, idx, line, container, inflight, puts,
                    sink_groups, sink_events, interrupts >>

\* managed_container, lines 20-23
RunContainer ==
    /\ pc = "run"
    /\ \E o \in RunOutcomes :
        LET next == managed_container_start(o) IN
        /\ Call("run", o)
        /\ container' = IF o = "ok" THEN "running" ELSE container
        /\ IF next = "done"
            THEN Leave(o) /\ UNCHANGED inflight
            ELSE /\ pc' = next
                 /\ inflight' = IF o = "ok" THEN "none" ELSE o
                 /\ UNCHANGED << exc, exit_code >>
    /\ UNCHANGED << output, auto_remove, idx, line, puts, log, sink_groups,
                    sink_streams, sink_events, interrupts >>

\* managed_container, lines 24-26, and main(), line 126: the try statement is
\* entered, the container is yielded and container.logs(stream=True) is called
EnterScope ==
    /\ pc = "started"
    /\ pc' = "loop"
    /\ log' = Append(log, "INFO Docker container started")
    /\ UNCHANGED << output, auto_remove, idx, line, container, inflight, exc,
                    exit_code, calls, outcomes, puts, sink_groups, sink_streams,
                    sink_events, interrupts >>

\* A loop that reads the next line without waiting for the write of the
\* line before.
ReadLine_ahead ==
    /\ pc \in { "loop", "write" }
    /\ IF idx < Len(output)
        THEN /\ idx' = idx + 1
             /\ line' = output[idx + 1]
             /\ log' = Append(log, "INFO Container log")
             /\ pc' = "write"
        ELSE /\ pc = "loop"
             /\ pc' = "stop"
             /\ UNCHANGED << idx, line, log >>
    /\ UNCHANGED << output, auto_remove, container, inflight, exc, exit_code,
                    calls, outcomes, puts, sink_groups, sink_streams,
                    sink_events, interrupts >>

\* main(), lines 126-127: the next line of the stream, or its end
ReadLine ==
    /\ pc = "loop"
    /\ IF idx < Len(output)
        THEN /\ idx' = idx + 1
             /\ line' = output[idx + 1]
             /\ log' = Append(log, "INFO Container log")
             /\ pc' = "write"
        ELSE /\ pc' = "stop"
             /\ UNCHANGED << idx, line, log >>
    /\ UNCHANGED << output, auto_remove, container, inflight, exc, exit_code,
                    calls, outcomes, puts, sink_groups, sink_streams,
                    sink_events, interrupts >>

\* main(), line 128: write_logs_to_cloudwatch(cloudwatch, args, line)
WriteLogs ==
    /\ pc = "write"
    /\ LET d == decode(line) IN
       IF ~d.ok
        THEN LET w == handle_cloudwatch_errors("UnicodeDecodeError") IN
             /\ log' = log \o w.logged
             /\ inflight' = w.raised
             /\ pc' = IF w.raised = "none" THEN "loop" ELSE "stop"
             /\ UNCHANGED << calls, outcomes, puts, sink_events >>
        ELSE \E o \in PutLogEventsOutcomes :
             LET r == check_response(o)
                 w == handle_cloudwatch_errors(r.ended) IN
             /\ Call("put_log_events", o)
             /\ puts' = Append(puts, logEvents(d.text))
             /\ sink_events' = IF o = "ok" THEN sink_events \o logEvents(d.text)
                               ELSE sink_events
             /\ log' = log \o r.logged \o w.logged
             /\ inflight' = w.raised
             /\ pc' = IF w.raised = "none" THEN "loop" ELSE "stop"
    /\ UNCHANGED << output, auto_remove, idx, line, container, exc, exit_code,
                    sink_groups, sink_streams, interrupts >>

\* managed_container, line 31 and the end of the finally clause: the exception
\* of the with-block, if any, is raised again
EndScope ==
    /\ log' = Append(log, "INFO Docker container stopped and removed")
    /\ Leave(inflight)

\* A finally clause that removes the container whatever the flag is.
cleanup_after_stop_always(flag) == "remove"

\* managed_container, line 29: what follows a container.stop() that returned
cleanup_after_stop(flag) == IF flag THEN "remove" ELSE "done"

\* managed_container, lines 28-29
StopContainer ==
    /\ pc = "stop"
    /\ \E o \in StopOutcomes :
        /\ Call("stop", o)
        /\ container' = IF o = "ok" THEN "stopped" ELSE container
        /\ IF o # "ok" THEN Leave(o) /\ UNCHANGED log
           ELSE IF cleanup_after_stop(auto_remove) = "remove"
                THEN pc' = "remove" /\ UNCHANGED << exc, exit_code, log >>
           ELSE EndScope
    /\ UNCHANGED << output, auto_remove, idx, line, inflight, puts, sink_groups,
                    sink_streams, sink_events, interrupts >>

\* managed_container, lines 30-31
RemoveContainer ==
    /\ pc = "remove"
    /\ \E o \in RemoveOutcomes :
        /\ Call("remove", o)
        /\ container' = IF o = "ok" THEN "removed" ELSE container
        /\ IF o # "ok" THEN Leave(o) /\ UNCHANGED log ELSE EndScope
    /\ UNCHANGED << output, auto_remove, idx, line, inflight, puts, sink_groups,
                    sink_streams, sink_events, interrupts >>

\* ------------------------------------------------------------------ SIGINT
\* No handler is installed, so SIGINT raises KeyboardInterrupt at the
\* statement main() is executing.  When that statement is a request, the
\* request was not sent yet ("unsent"), or was sent and not served ("sent"),
\* or was served while its answer never reached the program ("served").
Progress == { "unsent", "sent", "served" }

Interrupted(name, p) ==
    IF p = "unsent" THEN UNCHANGED << calls, outcomes >>
    ELSE Call(name, "KeyboardInterrupt")

\* during main(), lines 123-124
InterruptProvisioning ==
    /\ pc \in { "group", "stream" }
    /\ interrupts < MaxInterrupts
    /\ interrupts' = interrupts + 1
    /\ \E p \in Progress :
        /\ Interrupted(IF pc = "group" THEN "create_log_group" ELSE "create_log_stream", p)
        /\ sink_groups' = IF pc = "group" /\ p = "served"
                          THEN sink_groups \cup { group_name } ELSE sink_groups
        /\ sink_streams' = IF pc = "stream" /\ p = "served" /\ group_name \in sink_groups
                           THEN sink_streams \cup { <<group_name, stream_name>> }
                           ELSE sink_streams
    /\ log' = log \o handle_cloudwatch_errors("KeyboardInterrupt").logged
    /\ Leave(handle_cloudwatch_errors("KeyboardInterrupt").raised)
    /\ UNCHANGED << output, auto_remove, idx, line, container, inflight, puts,
                    sink_events >>

\* during managed_container, lines 20-23: no handle is bound
InterruptRun ==
    /\ pc = "run"
    /\ interrupts < MaxInterrupts
    /\ interrupts' = interrupts + 1
    /\ \E p \in Progress :
        /\ Interrupted("run", p)
        /\ container' = IF p = "served" THEN "running" ELSE container
    /\ Leave("KeyboardInterrupt")
    /\ UNCHANGED << output, auto_remove, idx, line, inflight, puts, log,
                    sink_groups, sink_streams, sink_events >>

\* after containers.run returned and before the try statement is entered
InterruptStart ==
    /\ pc = "started"
    /\ interrupts < MaxInterrupts
    /\ interrupts' = interrupts + 1
    /\ Leave("KeyboardInterrupt")
    /\ UNCHANGED << output, auto_remove, idx, line, container, inflight, calls,
                    outcomes, puts, log, sink_groups, sink_streams, sink_events >>

\* inside the with-block, main() lines 126-128: the finally clause runs
InterruptLoop ==
    /\ pc \in { "loop", "write" }
    /\ interrupts < MaxInterrupts
    /\ interrupts' = interrupts + 1
    /\ LET d == decode(line) IN
       \E p \in Progress :
        IF pc = "write" /\ d.ok /\ p # "unsent"
        THEN /\ Call("put_log_events", "KeyboardInterrupt")
             /\ puts' = Append(puts, logEvents(d.text))
             /\ sink_events' = IF p = "served" THEN sink_events \o logEvents(d.text)
                               ELSE sink_events
        ELSE /\ p = "unsent"
             /\ UNCHANGED << calls, outcomes, puts, sink_events >>
    /\ log' = log \o handle_cloudwatch_errors("KeyboardInterrupt").logged
    /\ inflight' = "KeyboardInterrupt"
    /\ pc' = "stop"
    /\ UNCHANGED << output, auto_remove, idx, line, container, exc, exit_code,
                    sink_groups, sink_streams >>

\* inside the finally clause, managed_container lines 28-31: the exception
\* leaves the clause, the rest of the clause is not executed
InterruptCleanup ==
    /\ pc \in { "stop", "remove" }
    /\ interrupts < MaxInterrupts
    /\ interrupts' = interrupts + 1
    /\ \E p \in Progress :
        /\ Interrupted(pc, p)
        /\ container' = IF p = "served"
                        THEN (IF pc = "stop" THEN "stopped" ELSE "removed")
                        ELSE container
    /\ Leave("KeyboardInterrupt")
    /\ UNCHANGED << output, auto_remove, idx, line, inflight, puts, log,
                    sink_groups, sink_streams, sink_events >>

Next ==
    \/ CreateLogGroup
    \/ CreateLogStream
    \/ RunContainer
    \/ EnterScope
    \/ ReadLine
    \/ WriteLogs
    \/ StopContainer
    \/ RemoveContainer
    \/ InterruptProvisioning
    \/ InterruptRun
    \/ InterruptStart
    \/ InterruptLoop
    \/ InterruptCleanup

Spec == Init /\ [][Next]_vars

\* main() is one thread whose calls return or raise: a step that can be taken
\* is taken.
FairSpec == Spec /\ WF_vars(Next)

TypeOK ==
    /\ pc \in { "group", "stream", "run", "started", "loop", "write", "stop", "remove", "done" }
    /\ output \in Outputs
    /\ idx \in 0 .. Len(output)
    /\ container \in { "none", "running", "stopped", "removed" }
    /\ exit_code \in { -1, 0, 1 }
    /\ Len(calls) = Len(outcomes)
    /\ interrupts \in 0 .. MaxInterrupts
    /\ (pc = "done") = (exit_code # -1)

\* ------------------------------------------------- provisioning on its own
\* create_or_verify_cloudwatch_log_group and
\* create_or_verify_cloudwatch_log_stream called by a caller any number of
\* times, in any order, until one of them raises.
ProvInit ==
    /\ pc = "ensure"
    /\ output = <<>>
    /\ auto_remove = TRUE
    /\ idx = 0
    /\ line = <<>>
    /\ container = "none"
    /\ inflight = "none"
    /\ exc = "none"
    /\ exit_code = -1
    /\ calls = <<>>
    /\ outcomes = <<>>
    /\ puts = <<>>
    /\ log = <<>>
    /\ sink_groups \in SUBSET { group_name }
    /\ sink_streams \in SUBSET { <<g, stream_name>> : g \in sink_groups }
    /\ sink_events = <<>>
    /\ interrupts = 0

\* create_or_verify_cloudwatch_log_group(cloudwatch, group_name)
EnsureLogGroup ==
    /\ pc = "ensure"
    /\ Len(calls) < MaxEnsure
    /\ \E o \in CreateLogGroupOutcomes :
        LET w == handle_cloudwatch_errors(o) IN
        /\ Call("create_log_group", o)
        /\ sink_groups' = IF o = "ok" THEN sink_groups \cup { group_name } ELSE sink_groups
        /\ log' = log \o w.logged
        /\ IF w.raised = "none"
            THEN UNCHANGED << pc, exc, exit_code >>
            ELSE Leave(w.raised)
    /\ UNCHANGED << output, auto_remove, idx, line, container, inflight, puts,
                    sink_streams, sink_events, interrupts >>

\* create_or_verify_cloudwatch_log_stream(cloudwatch, group_name, stream_name)
EnsureLogStream ==
    /\ pc = "ensure"
    /\ Len(calls) < MaxEnsure
    /\ \E o \in CreateLogStreamOutcomes :
        LET w == handle_cloudwatch_errors(o) IN
        /\ Call("create_log_stream", o)
        /\ sink_streams' = IF o = "ok"
                           THEN sink_streams \cup { <<group_name, stream_name>> }
                           ELSE sink_streams
        /\ log' = log \o w.logged
        /\ IF w.raised = "none"
            THEN UNCHANGED << pc, exc, exit_code >>
            ELSE Leave(w.raised)
    /\ UNCHANGED << output, auto_remove, idx, line, container, inflight, puts,
                    sink_groups, sink_events, interrupts >>

ProvNext == EnsureLogGroup \/ EnsureLogStream

ProvSpec == ProvInit /\ [][ProvNext]_vars

\* ============================================================== properties
Made(name) == { i \in 1 .. Len(calls) : calls[i] = name }
Count(name) == Cardinality(Made(name))
Returned(name) == { i \in Made(name) : outcomes[i] \in { "ok", "Failed" } }
Suppressed(name) == { i \in Made(name) : outcomes[i] = "ResourceAlreadyExistsException" }
Raised(name) == Made(name) \ (Returned(name) \cup Suppressed(name))
SinkErrors == { "ClientError", "Exception" }
Before(a, b) == \E i \in Made(a) : \E j \in Made(b) : i < j
Decodable == \A i \in 1 .. Len(output) : decode(output[i]).ok

\* C1: once containers.run returned a handle with auto_remove enabled, stop
\* and remove are each invoked exactly once before the program ends, whether
\* the log stream ended or the forwarding loop raised.
C1_StopAndRemoveOnce ==
    (/\ pc = "done"
     /\ auto_remove
     /\ Returned("run") # {}
     /\ interrupts = 0)
        => Count("stop") = 1 /\ Count("remove") = 1

\* C2: remove is never invoked before stop has completed, and whenever the
\* scope is left (log stream ended, forwarding error, cancellation) remove
\* follows stop.
C2_RemoveFollowsStop ==
    /\ \A j \in Made("remove") : \E i \in Returned("stop") : i < j
    /\ (pc = "done" /\ auto_remove /\ Made("stop") # {}) => Before("stop", "remove")

\* C3: the container is not started before the log group and the log stream
\* were both created or found to exist; when either creation raises another
\* failure, the program ends there, containers.run is never invoked and no
\* put_log_events call is made.
C3_ProvisionBeforeStart ==
    /\ Made("run") # {} =>
        /\ Returned("create_log_group") \cup Suppressed("create_log_group") # {}
        /\ Returned("create_log_stream") \cup Suppressed("create_log_stream") # {}
        /\ Before("create_log_group", "run")
        /\ Before("create_log_stream", "run")
    /\ Raised("create_log_group") \cup Raised("create_log_stream") # {} =>
        /\ pc = "done"
        /\ exit_code = 1
        /\ Made("run") = {}
        /\ Made("put_log_events") = {}
        /\ puts = <<>>
        /\ container = "none"

C3_Witness ==
    /\ Suppressed("create_log_group") # {}
    /\ \E i \in Raised("create_log_stream") : outcomes[i] = "ClientError"
    /\ pc = "done"

\* C4 as stated: for an output of N lines in which no put_log_events call
\* raises an error other than "already exists", exactly N calls are made, the
\* i-th carrying one event whose message is the i-th line.
C4_OneCallPerLine ==
    (/\ pc = "done"
     /\ Made("stop") # {}
     /\ interrupts = 0
     /\ \A i \in Made("put_log_events") : outcomes[i] \notin SinkErrors)
        => /\ Len(puts) = Len(output)
           /\ Count("put_log_events") = Len(output)
           /\ \A i \in 1 .. Len(puts) :
                puts[i] = << [message |-> decode(output[i]).text] >>

\* C4 amended: the same for an output whose lines all are valid UTF-8.
C4_OneCallPerDecodableLine ==
    Decodable => C4_OneCallPerLine

C4_Witness ==
    /\ pc = "done"
    /\ Len(output) >= 2
    /\ output[1] # output[2]
    /\ Len(puts) = Len(output)
    /\ puts[2] = << [message |-> <<233>>] >>
    /\ \E i \in Made("put_log_events") : outcomes[i] = "ResourceAlreadyExistsException"

\* C5: when put_log_events raises an error other than "already exists" on
\* line k, lines 1..k-1 were forwarded, no call is made for a later line, the
\* container is stopped and removed and the process ends in error.
C5_AbortOnSinkError ==
    \A i \in Made("put_log_events") :
        (pc = "done" /\ auto_remove /\ interrupts = 0 /\ outcomes[i] \in SinkErrors) =>
            /\ Len(puts) = idx
            /\ \A k \in 1 .. idx : puts[k] = << [message |-> decode(output[k]).text] >>
            /\ \A j \in Made("put_log_events") : j <= i
            /\ \A j \in Made("put_log_events") : j < i => outcomes[j] \notin SinkErrors
            /\ Before("put_log_events", "stop")
            /\ Before("stop", "remove")
            /\ Count("stop") = 1 /\ Count("remove") = 1
            /\ exit_code = 1

\* C6: a put_log_events response that is returned normally and reports a
\* failure does not end forwarding: the loop goes on to the next line with no
\* exception raised, every line of the stream gets its call, and the program
\* does not end in error for it.
C6_Step ==
    (/\ pc = "write"
     /\ Len(calls') = Len(calls) + 1
     /\ outcomes'[Len(calls')] = "Failed")
        => /\ pc' = "loop"
           /\ inflight' = "none"
           /\ exit_code' = -1
           /\ idx' = idx

C6_End ==
    (/\ pc = "done"
     /\ Made("stop") # {}
     /\ interrupts = 0
     /\ Decodable
     /\ \A i \in Made("put_log_events") : outcomes[i] \in { "ok", "Failed" })
        => /\ Len(puts) = Len(output)
           /\ inflight = "none"
           /\ (Raised("stop") \cup Raised("remove") = {} => exit_code = 0)

C6_PartialFailureContinues == [][C6_Step]_vars /\ []C6_End

C6_Witness ==
    /\ pc = "done"
    /\ exit_code = 0
    /\ \E i, j \in Made("put_log_events") : i < j /\ outcomes[i] = "Failed"

\* C7: when the forwarding loop raised E and container.stop or
\* container.remove then fails, the error that leaves managed_container is E.
C7_CleanupFailureDoesNotMask ==
    (/\ pc = "done"
     /\ inflight # "none"
     /\ interrupts = 0
     /\ Raised("stop") \cup Raised("remove") # {})
        => exc = inflight

\* C8: an interruption that arrives after the container was started passes
\* through stop and then remove: the program does not end with a started
\* container for which stop and remove were not invoked.
C8_InterruptRunsCleanup ==
    (/\ pc = "done"
     /\ auto_remove
     /\ Returned("run") # {}
     /\ interrupts > 0
     /\ \A i \in Made("stop") \cup Made("remove") : outcomes[i] # "APIError")
        => Before("stop", "remove")

\* C9: when containers.run raises, it is not invoked again, no put_log_events
\* call is made, neither stop nor remove is invoked, and the program ends in
\* error.
C9_StartFailureIsFatal ==
    Raised("run") # {} =>
        /\ Count("run") = 1
        /\ Made("put_log_events") = {} /\ puts = <<>>
        /\ Made("stop") = {} /\ Made("remove") = {}
        /\ pc = "done"
        /\ exit_code = 1
        /\ exc = outcomes[Len(outcomes)]

C9_Witness ==
    /\ \E i \in Made("run") : outcomes[i] = "ImageNotFound"
    /\ exc = "ImageNotFound"

\* C10: when create_log_group is answered with ResourceAlreadyExistsException
\* the program goes on to create_log_stream, and when create_log_stream is
\* answered so it goes on to containers.run; nothing is raised.
C10_Step ==
    (/\ pc \in { "group", "stream" }
     /\ Len(calls') = Len(calls) + 1
     /\ outcomes'[Len(calls')] = "ResourceAlreadyExistsException")
        => /\ pc' = (IF pc = "group" THEN "stream" ELSE "run")
           /\ exit_code' = -1 /\ exc' = "none"
           /\ sink_groups' = sink_groups /\ sink_streams' = sink_streams

C10_AlreadyExistsProceeds == [][C10_Step]_vars

C10_Witness ==
    /\ Len(calls) >= 3
    /\ calls[1] = "create_log_group" /\ outcomes[1] = "ResourceAlreadyExistsException"
    /\ calls[2] = "create_log_stream" /\ outcomes[2] = "ResourceAlreadyExistsException"
    /\ calls[3] = "run" /\ outcomes[3] = "ok"
    /\ container = "running"

\* C11: provisioning is idempotent: once an ensure operation returned
\* normally, calling it again meets the existing resource, returns normally
\* and leaves the groups and streams of the sink as they were.
C11_Step ==
    \A name \in { "create_log_group", "create_log_stream" } :
        (/\ Returned(name) \cup Suppressed(name) # {}
         /\ Len(calls') = Len(calls) + 1
         /\ calls'[Len(calls')] = name
         /\ outcomes'[Len(calls')] \notin SinkErrors)
            => /\ outcomes'[Len(calls')] = "ResourceAlreadyExistsException"
               /\ pc' = pc
               /\ exc' = "none" /\ exit_code' = -1
               /\ sink_groups' = sink_groups
               /\ sink_streams' = sink_streams

C11_IdempotentProvisioning == [][C11_Step]_vars

C11_Witness ==
    /\ pc = "ensure"
    /\ calls = << "create_log_group", "create_log_stream",
                  "create_log_group", "create_log_stream" >>
    /\ outcomes = << "ok", "ok", "ResourceAlreadyExistsException",
                     "ResourceAlreadyExistsException" >>

\* C12 as stated: when no provisioning, start, sink or cleanup call raises,
\* the loop ends after the last line, stop and remove run and the exit code is
\* 0; a provisioning failure, a start failure or a sink error other than
\* "already exists" gives a non-zero exit code.
C12_ExitCodes ==
    /\ (/\ pc = "done"
        /\ interrupts = 0
        /\ \A i \in 1 .. Len(outcomes) :
            outcomes[i] \in { "ok", "Failed", "ResourceAlreadyExistsException" })
        => /\ exit_code = 0
           /\ idx = Len(output) /\ Len(puts) = Len(output)
           /\ Count("stop") = 1
           /\ auto_remove => (Count("remove") = 1 /\ Before("stop", "remove"))
    /\ (/\ pc = "done"
        /\ \/ Raised("create_log_group") \cup Raised("create_log_stream") # {}
           \/ Raised("run") # {}
           \/ \E i \in Made("put_log_events") : outcomes[i] \in SinkErrors)
        => exit_code = 1

\* C12 amended: the program always finishes, with the exit codes of the claim
\* when every line of the output is valid UTF-8.
C12_Terminates == <>(pc = "done") /\ [](Decodable => C12_ExitCodes)

C12_Witness ==
    /\ pc = "done"
    /\ exit_code = 0
    /\ Len(output) = 2
    /\ Len(puts) = 2
    /\ container = "removed"

\* C13: the container only goes from not created to running, from running to
\* stopped and from stopped to removed, no state skipped or entered again;
\* leaving the with-block for any reason leads to the stop call; the container
\* is removed only when auto_remove is set, and with auto_remove false remove
\* is never invoked and a stopped container stays stopped.
C13_Step ==
    /\ container' # container =>
        << container, container' >> \in { << "none", "running" >>,
                                          << "running", "stopped" >>,
                                          << "stopped", "removed" >> }
    /\ (container = "stopped" /\ container' = "removed") => auto_remove
    /\ (pc \in { "loop", "write" } /\ pc' \notin { "loop", "write" }) => pc' = "stop"
    /\ (pc = "stop" /\ Len(calls') = Len(calls) + 1) =>
            (calls'[Len(calls')] = "stop" /\ container = "running")
    /\ (pc = "remove" /\ Len(calls') = Len(calls) + 1) =>
            (calls'[Len(calls')] = "remove" /\ container = "stopped")

C13_State ==
    /\ Count("run") <= 1 /\ Count("stop") <= 1 /\ Count("remove") <= 1
    /\ ~auto_remove =>
        /\ Made("remove") = {}
        /\ container # "removed"
        /\ (pc = "done" /\ Returned("stop") # {}) => container = "stopped"
    /\ (auto_remove /\ pc = "done" /\ Returned("remove") # {}) => container = "removed"

C13_Lifecycle == [][C13_Step]_vars /\ []C13_State

C13_Witness ==
    /\ ~auto_remove
    /\ pc = "done"
    /\ container = "stopped"
    /\ inflight = "ClientError"

\* C14: a ResourceAlreadyExistsException raised by put_log_events is
\* suppressed and the loop goes on to the next line; any other error raised
\* by put_log_events is raised again, ends the loop and goes out through the
\* scope exit of managed_container.
C14_Step ==
    (/\ pc = "write"
     /\ Len(calls') = Len(calls) + 1
     /\ calls'[Len(calls')] = "put_log_events")
        => LET o == outcomes'[Len(calls')] IN
           /\ o = "ResourceAlreadyExistsException" =>
                (pc' = "loop" /\ inflight' = "none" /\ exit_code' = -1 /\ idx' = idx)
           /\ o \in SinkErrors =>
                (pc' = "stop" /\ inflight' = o /\ exit_code' = -1)

C14_State ==
    \A i \in Made("put_log_events") :
        outcomes[i] \in SinkErrors =>
            /\ \A j \in Made("put_log_events") : j <= i
            /\ Len(puts) = idx
            /\ pc \in { "stop", "remove", "done" }
            /\ inflight = outcomes[i]
            /\ pc = "done" => exit_code = 1
            /\ (pc = "done" /\ interrupts = 0 /\ Raised("stop") \cup Raised("remove") = {})
                    => exc = outcomes[i]

C14_SuppressOrReraise == [][C14_Step]_vars /\ []C14_State

C14_Witness ==
    /\ pc = "done"
    /\ exc = "ClientError"
    /\ \E i, j \in Made("put_log_events") :
        /\ i < j
        /\ outcomes[i] = "ResourceAlreadyExistsException"
        /\ outcomes[j] = "ClientError"

\* C15: the write of line i has returned or raised before line i+1 is read:
\* whenever the program is about to read a line every line read so far has
\* had its put_log_events call, and while it writes, only the line just read
\* has not.
C15_Sequential ==
    /\ Len(puts) <= idx
    /\ Len(puts) = Count("put_log_events")
    /\ pc = "loop" => Len(puts) = idx
    /\ pc = "write" => (Len(puts) = idx - 1 /\ line = output[idx])
    /\ \A k \in 1 .. Len(puts) : puts[k] = logEvents(decode(output[k]).text)

C15_Witness ==
    /\ pc = "write"
    /\ idx = 2
    /\ Len(puts) = 1

\* C16: every put_log_events call is made after containers.run returned the
\* handle and before container.stop is invoked.
C16_PutsWithinLifetime ==
    \A i \in Made("put_log_events") :
        /\ \E j \in Returned("run") : j < i
        /\ \A k \in Made("stop") \cup Made("remove") : i < k
        /\ outcomes[i] # "KeyboardInterrupt" => container # "none"

C16_Witness ==
    /\ Made("put_log_events") # {}
    /\ Made("stop") # {}
    /\ Made("remove") # {}

\* C17: the wrapper suppresses a ClientError with code
\* ResourceAlreadyExistsException and nothing else: every other exception of
\* a wrapped operation is raised to the caller, and a line that is not UTF-8
\* ends forwarding and starts the cleanup of the container; it is not skipped.
C17_Step ==
    /\ (/\ pc \in { "group", "stream", "write" }
        /\ Len(calls') = Len(calls) + 1)
        => LET o == outcomes'[Len(calls')] IN
           /\ o \in { "ok", "Failed", "ResourceAlreadyExistsException" } =>
                /\ pc' = (IF pc = "group" THEN "stream"
                          ELSE IF pc = "stream" THEN "run" ELSE "loop")
                /\ inflight' = "none" /\ exc' = "none" /\ exit_code' = -1
           /\ o \notin { "ok", "Failed", "ResourceAlreadyExistsException" } =>
                IF pc = "write"
                THEN pc' = "stop" /\ inflight' = o
                ELSE pc' = "done" /\ exc' = o /\ exit_code' = 1
    /\ (pc = "write" /\ ~decode(line).ok /\ interrupts' = interrupts /\ pc' # pc)
        => /\ pc' = "stop"
           /\ inflight' = "UnicodeDecodeError"
           /\ calls' = calls /\ puts' = puts /\ idx' = idx

C17_State ==
    \A k \in 1 .. idx :
        ~decode(output[k]).ok =>
            /\ k = idx
            /\ Len(puts) = idx - 1
            /\ pc \in { "write", "stop", "remove", "done" }
            /\ pc # "write" => inflight \in { "UnicodeDecodeError", "KeyboardInterrupt" }
            /\ pc = "done" => exit_code = 1

C17_OnlyAlreadyExistsSuppressed == [][C17_Step]_vars /\ []C17_State

C17_Witness ==
    /\ pc = "done"
    /\ Len(output) = 2
    /\ ~decode(output[1]).ok
    /\ idx = 1
    /\ inflight = "UnicodeDecodeError"
    /\ exc = "UnicodeDecodeError"
    /\ Before("stop", "remove")

\* C18: create_log_group, create_log_stream and containers.run are each
\* invoked at most once, in that order, and create_log_stream only after
\* create_log_group returned normally.
C18_ProvisioningOrder ==
    /\ Count("create_log_group") <= 1
    /\ Count("create_log_stream") <= 1
    /\ Count("run") <= 1
    /\ calls # <<>> => calls[1] = "create_log_group"
    /\ \A j \in Made("create_log_stream") :
        /\ j = 2
        /\ outcomes[1] \in { "ok", "ResourceAlreadyExistsException" }
    /\ \A k \in Made("run") : k = 3 /\ calls[2] = "create_log_stream"

C18_Witness ==
    /\ Len(calls) >= 3
    /\ calls[1] = "create_log_group" /\ outcomes[1] = "ok"
    /\ calls[2] = "create_log_stream" /\ outcomes[2] = "ok"
    /\ calls[3] = "run" /\ outcomes[3] = "ImageNotFound"

====
